---- MODULE Spec2Model ----
(***************************************************************************)
(* Model of EC.py: a one-shot batch job that queries a Notion database,    *)
(* summarizes each titled record with a chat-completion call and writes    *)
(* the summary back to the record's page.                                  *)
(*                                                                         *)
(* Strings are sequences of one-character strings.  JSON / Python values   *)
(* are tagged records, so that dict.get, truthiness and isinstance are     *)
(* computed as Python computes them, exceptions included.                  *)
(***************************************************************************)
EXTENDS Integers, Sequences, FiniteSets, TLC

\* Largest number of records one query response holds in the model.
MaxItems == 2

(***************************************************************************)
(* Python values                                                           *)
(***************************************************************************)
PyNone == [tag |-> "None"]

PyStr(s) == [tag |-> "str", s |-> s]

PyList(l) == [tag |-> "list", l |-> l]

PyDict(d) == [tag |-> "dict", d |-> d]

EmptyDict == PyDict(<<>>)

EmptyList == PyList(<<>>)

\* bool(v): None, "", [] and {} are falsy.
Truthy(v) ==
    CASE v.tag = "None" -> FALSE
      [] v.tag = "str"  -> Len(v.s) > 0
      [] v.tag = "list" -> Len(v.l) > 0
      [] v.tag = "dict" -> DOMAIN v.d # {}

\* isinstance(v, list)
IsList(v) == v.tag = "list"

\* The outcome of evaluating an expression: a value, or a raised exception.
Returned(v) == [raised |-> FALSE, exc |-> "", val |-> v]

Raised(e) == [raised |-> TRUE, exc |-> e, val |-> PyNone]

\* v.get(key, default): only a dict has .get; on None, a str or a list the
\* attribute lookup raises AttributeError.
PyGet(v, key, default) ==
    IF v.tag # "dict" THEN Raised("AttributeError")
    ELSE Returned(IF key \in DOMAIN v.d THEN v.d[key] ELSE default)

(***************************************************************************)
(* Field extraction, lines 96-108 of main                                  *)
(***************************************************************************)
\* block[0].get("text", {}).get("content", "")
FirstContent(block) ==
    LET text == PyGet(block.l[1], "text", EmptyDict)
    IN  IF text.raised THEN text ELSE PyGet(text.val, "content", PyStr(<<>>))

\* The rule applied to "Doc name"/"title" and to "Notes / Background"/"rich_text":
\*   field = ""
\*   block = props.get(name, {}).get(key, [])
\*   if block and isinstance(block, list):
\*       data = block[0].get("text", {}).get("content", "")
\*       field = data or ""
ExtractField(props, name, key) ==
    LET prop == PyGet(props, name, EmptyDict)
    IN  IF prop.raised THEN prop
        ELSE LET block == PyGet(prop.val, key, EmptyList)
             IN  IF block.raised THEN block
                 ELSE IF Truthy(block.val) /\ IsList(block.val)
                      THEN LET data == FirstContent(block.val)
                           IN  IF data.raised THEN data
                               ELSE Returned(IF Truthy(data.val) THEN data.val
                                             ELSE PyStr(<<>>))
                      ELSE Returned(PyStr(<<>>))

ExtractTitle(props) == ExtractField(props, "Doc name", "title")

ExtractDescription(props) == ExtractField(props, "Notes / Background", "rich_text")

(***************************************************************************)
(* summarize_task: prompt construction and trimming of the reply           *)
(***************************************************************************)
PromptHead ==
    <<"S", "u", "m", "m", "a", "r", "i", "z", "e", " ", "a", "n", "d", " ",
      "p", "r", "i", "o", "r", "i", "t", "i", "z", "e", " ", "t", "h", "i",
      "s", " ", "t", "a", "s", "k", ":", "\n", "T", "i", "t", "l", "e", ":", " ">>

PromptMid ==
    <<"\n", "D", "e", "s", "c", "r", "i", "p", "t", "i", "o", "n", ":", " ">>

\* f"Summarize and prioritize this task:\nTitle: {title}\nDescription: {description}"
BuildPrompt(t, d) == PromptHead \o t \o PromptMid \o d

Whitespace == {" ", "\n", "\t", "\r"}

RECURSIVE LStrip(_)
LStrip(s) ==
    IF s # <<>> /\ Head(s) \in Whitespace THEN LStrip(Tail(s)) ELSE s

RECURSIVE RStrip(_)
RStrip(s) ==
    IF s # <<>> /\ s[Len(s)] \in Whitespace
    THEN RStrip(SubSeq(s, 1, Len(s) - 1)) ELSE s

\* A trim of the leading whitespace only.
StripLeftOnly(s) == LStrip(s)

\* str.strip()
Strip(s) == RStrip(LStrip(s))

(***************************************************************************)
(* update_notion_page: the PATCH body                                      *)
(***************************************************************************)
UpdateData(s) ==
    PyDict("properties" :>
        PyDict("Summary" :>
            PyDict("rich_text" :>
                PyList(<<PyDict("text" :> PyDict("content" :> PyStr(s)))>>))))

\* The "Summary" rich-text content a PATCH body carries.
SummaryContent(data) ==
    data.d["properties"].d["Summary"].d["rich_text"].l[1].d["text"].d["content"].s

(***************************************************************************)
(* The environment: configuration, database contents, endpoint replies     *)
(***************************************************************************)
\* os.getenv(name): None when unset, else the string (possibly empty).
EnvValues == {PyNone, PyStr(<<>>), PyStr(<<"k">>)}

\* A rich-text fragment holding plain text c.
Fragment(c) == PyDict("text" :> PyDict("content" :> PyStr(c)))

\* Marks a property the record does not have.
Absent == [tag |-> "absent"]

\* Shapes of the "Doc name" property.
TitleShapes ==
    { Absent,
      PyNone,
      PyDict("title" :> EmptyList),
      PyDict("title" :> PyList(<<PyNone>>)),
      PyDict("title" :> PyList(<<Fragment(<<"F", "i", "x">>)>>)),
      PyDict("title" :> PyList(<<Fragment(<<"B", "u", "g">>), Fragment(<<"F", "i", "x">>)>>)) }

\* Shapes of the "Notes / Background" property.
DescShapes ==
    { Absent,
      PyNone,
      PyDict("rich_text" :> EmptyList),
      PyDict("rich_text" :> PyList(<<PyStr(<<"x">>)>>)),
      PyDict("rich_text" :> PyList(<<Fragment(<<"U", "s", "e", "r", "s">>)>>)) }

PropsOf(t, d) ==
    LET keys == (IF t = Absent THEN {} ELSE {"Doc name"})
                \cup (IF d = Absent THEN {} ELSE {"Notes / Background"})
    IN  PyDict([k \in keys |-> IF k = "Doc name" THEN t ELSE d])

\* The "properties" mappings of the modelled pages: every title shape without
\* a description, every description shape under a one-fragment title, and
\* the untitled pages with an ill-typed and with a well-formed description.
AllProps ==
    { PropsOf(t, Absent) : t \in TitleShapes }
    \cup { PropsOf(PyDict("title" :> PyList(<<Fragment(<<"F", "i", "x">>)>>)), d) :
              d \in DescShapes }
    \cup { PropsOf(t, d) :
              t \in {Absent, PyDict("title" :> EmptyList)},
              d \in {PyNone,
                     PyDict("rich_text" :> PyList(<<Fragment(<<"U", "s", "e", "r", "s">>)>>))} }

PageIds == <<"p1", "p2", "p3", "p4">>

\* A "results" array of n pages with properties f[1..n], the page at
\* position i identified by PageIds[i].
ResultList(n, f) == [i \in 1..n |-> [id |-> PageIds[i], properties |-> f[i]]]

\* Replies of the query endpoint: a non-success status, a success whose JSON
\* body has no "results" key, or a success carrying a results array.
QueryKinds == {"httperror", "noresults", "ok"}

QueryReply(kind, results) == [kind |-> kind, results |-> results]

\* Replies of the chat-completion endpoint: an API error, a reply without
\* choices, a reply whose message content is null, or generated text.
RawTexts == { <<" ", "d", "o", " ", "i", "t", "\n">>, <<"o", "k">> }

Completions ==
    { [kind |-> "error", content |-> <<>>],
      [kind |-> "nochoices", content |-> <<>>],
      [kind |-> "nullcontent", content |-> <<>>] }
    \cup { [kind |-> "ok", content |-> r] : r \in RawTexts }

NoPage == [set |-> FALSE, content |-> <<>>]

(***************************************************************************)
(* State                                                                   *)
(***************************************************************************)
VARIABLES
    NOTION_TOKEN,        \* module globals read from the environment
    OPENAI_API_KEY,
    NOTION_DATABASE_ID,
    pc,                  \* where the process is
    exc,                 \* the exception that ended the process, "" if none
    items,               \* main: the fetched records
    idx,                 \* main: position of the for loop in items
    page_id,             \* main: locals of the current iteration
    title,
    description,
    summary,
    calls,               \* history of the network calls made, in order
    visited,             \* history of the loop positions whose body ran
    pages                \* the database: Summary content of each page

vars == <<NOTION_TOKEN, OPENAI_API_KEY, NOTION_DATABASE_ID, pc, exc, items,
          idx, page_id, title, description, summary, calls, visited, pages>>

env == <<NOTION_TOKEN, OPENAI_API_KEY, NOTION_DATABASE_ID>>

locals == <<page_id, title, description, summary>>

\* One entry of calls.  op is "query", "summarize" or "update"; at is the loop
\* position it was made for (0 for the query); target is the database or
\* page identifier in the URL; title and description are the arguments of
\* summarize_task; prompt and data are what was sent; reply is the text a
\* completion returned; ok tells whether the call succeeded.
QueryCall(db, ok) ==
    [op |-> "query", at |-> 0, target |-> db, title |-> <<>>,
     description |-> <<>>, prompt |-> <<>>, data |-> PyNone, reply |-> <<>>,
     ok |-> ok]

SummarizeCall(at, t, d, prompt, reply, ok) ==
    [op |-> "summarize", at |-> at, target |-> "", title |-> t,
     description |-> d, prompt |-> prompt, data |-> PyNone, reply |-> reply,
     ok |-> ok]

UpdateCall(at, page, data, ok) ==
    [op |-> "update", at |-> at, target |-> page, title |-> <<>>,
     description |-> <<>>, prompt |-> <<>>, data |-> data, reply |-> <<>>,
     ok |-> ok]

Init ==
    /\ NOTION_TOKEN \in EnvValues
    /\ OPENAI_API_KEY \in EnvValues
    /\ NOTION_DATABASE_ID \in EnvValues
    /\ pc = "start"
    /\ exc = ""
    /\ items = <<>>
    /\ idx = 0
    /\ page_id = ""
    /\ title = <<>>
    /\ description = <<>>
    /\ summary = <<>>
    /\ calls = <<>>
    /\ visited = <<>>
    /\ pages = [p \in {} |-> NoPage]

(***************************************************************************)
(* Actions                                                                 *)
(***************************************************************************)
\* A validation that tests for unset variables only and lets empty ones pass.
EnvMissingNoneOnly ==
    \/ NOTION_TOKEN = PyNone
    \/ OPENAI_API_KEY = PyNone
    \/ NOTION_DATABASE_ID = PyNone

\* if not NOTION_TOKEN or not OPENAI_API_KEY or not NOTION_DATABASE_ID
EnvMissing ==
    \/ ~Truthy(NOTION_TOKEN)
    \/ ~Truthy(OPENAI_API_KEY)
    \/ ~Truthy(NOTION_DATABASE_ID)

\* Module level, lines 10-19: raise EnvironmentError or go on to main().
ValidateEnv ==
    /\ pc = "start"
    /\ IF EnvMissing
       THEN pc' = "config_error" /\ exc' = "EnvironmentError"
       ELSE pc' = "main" /\ exc' = exc
    /\ UNCHANGED <<env, items, idx, locals, calls, visited, pages>>

\* A fetch that swallows a non-success status and returns no records.
QueryResultSwallowed(r) ==
    CASE r.kind = "httperror" -> Returned(EmptyList)
      [] r.kind = "noresults" -> Raised("KeyError")
      [] r.kind = "ok"        -> Returned(PyList(r.results))

\* response.raise_for_status(); return response.json()["results"]
QueryResult(r) ==
    CASE r.kind = "httperror" -> Raised("HTTPError")
      [] r.kind = "noresults" -> Raised("KeyError")
      [] r.kind = "ok"        -> Returned(PyList(r.results))

\* items = get_new_notion_items(): POST the query and take its result.
GetNewNotionItems ==
    /\ pc = "main"
    /\ \E kind \in QueryKinds, n \in 0..MaxItems :
         /\ kind # "ok" => n = 0
         /\ \E f \in [1..n -> AllProps] :
              LET r == QueryReply(kind, ResultList(n, f))
                  res == QueryResult(r)
              IN  /\ calls' = Append(calls, QueryCall(NOTION_DATABASE_ID.s,
                                                      r.kind # "httperror"))
                  /\ IF res.raised
                     THEN /\ pc' = "error" /\ exc' = res.exc
                          /\ UNCHANGED <<items, idx, pages>>
                     ELSE /\ pc' = "loop" /\ exc' = exc
                          /\ items' = res.val.l
                          /\ idx' = 1
                          /\ pages' = [p \in {res.val.l[i].id :
                                                 i \in 1..Len(res.val.l)}
                                         |-> NoPage]
    /\ UNCHANGED <<env, locals, visited>>

\* A loop that stops one record early.
LoopExhaustedEarly == idx >= Len(items)

\* for item in items: no record is left.
LoopExhausted == idx > Len(items)

\* A skip condition that also drops records without a description.
SkipItemNoDescription(t, d) == t = <<>> \/ d = <<>>

\* if not title: ... continue
SkipItem(t, d) == t = <<>>

\* One pass through lines 89-112 for items[idx]: extract the fields, then
\* skip the record or go on to summarize_task.
LoopItem ==
    /\ pc = "loop"
    /\ ~LoopExhausted
    /\ LET item == items[idx]
           t == ExtractTitle(item.properties)
           d == ExtractDescription(item.properties)
       IN  /\ visited' = Append(visited, idx)
           /\ page_id' = item.id
           /\ IF t.raised
              THEN /\ pc' = "error" /\ exc' = t.exc
                   /\ title' = <<>>
                   /\ UNCHANGED <<idx, description>>
              ELSE IF d.raised
              THEN /\ pc' = "error" /\ exc' = d.exc
                   /\ title' = t.val.s
                   /\ description' = <<>>
                   /\ UNCHANGED idx
              ELSE /\ title' = t.val.s
                   /\ description' = d.val.s
                   /\ exc' = exc
                   /\ IF SkipItem(title', description')
                      THEN pc' = "loop" /\ idx' = idx + 1
                      ELSE pc' = "summarize" /\ idx' = idx
    /\ UNCHANGED <<env, items, summary, calls, pages>>

\* The for loop is exhausted: main returns.
LoopEnd ==
    /\ pc = "loop"
    /\ LoopExhausted
    /\ pc' = "done"
    /\ UNCHANGED <<env, exc, items, idx, locals, calls, visited, pages>>

\* A summarizer that catches every failure and returns an empty summary.
CompletionResultSwallowed(r) ==
    IF r.kind = "ok" THEN Returned(PyStr(Strip(r.content)))
    ELSE Returned(PyStr(<<>>))

\* client.chat.completions.create(...) raises on an API error;
\* response.choices[0].message.content.strip()
CompletionResult(r) ==
    CASE r.kind = "error"       -> Raised("APIError")
      [] r.kind = "nochoices"   -> Raised("IndexError")
      [] r.kind = "nullcontent" -> Raised("AttributeError")
      [] r.kind = "ok"          -> Returned(PyStr(Strip(r.content)))

\* summary = summarize_task(title, description)
SummarizeTask ==
    /\ pc = "summarize"
    /\ \E r \in Completions :
         LET prompt == BuildPrompt(title, description)
             res == CompletionResult(r)
         IN  /\ calls' = Append(calls, SummarizeCall(idx, title, description,
                                                     prompt, r.content, r.kind = "ok"))
             /\ IF res.raised
                THEN /\ summary' = summary
                     /\ pc' = "error" /\ exc' = res.exc
                ELSE /\ summary' = res.val.s
                     /\ pc' = "update" /\ exc' = exc
    /\ UNCHANGED <<env, items, idx, page_id, title, description, visited, pages>>

\* An updater that does not look at the response status.
UpdateNeverRaises(status_ok) == FALSE

\* response.raise_for_status() in update_notion_page
UpdateRaises(status_ok) == ~status_ok

\* update_notion_page(page_id, summary): PATCH the page; raise_for_status().
UpdateNotionPage ==
    /\ pc = "update"
    /\ \E status_ok \in BOOLEAN :
         LET data == UpdateData(summary)
         IN  /\ calls' = Append(calls, UpdateCall(idx, page_id, data, status_ok))
             /\ pages' = IF status_ok
                         THEN [pages EXCEPT ![page_id] =
                                 [set |-> TRUE, content |-> SummaryContent(data)]]
                         ELSE pages
             /\ IF UpdateRaises(status_ok)
                THEN pc' = "error" /\ exc' = "HTTPError" /\ idx' = idx
                ELSE pc' = "loop" /\ exc' = exc /\ idx' = idx + 1
    /\ UNCHANGED <<env, items, locals, visited>>

Next ==
    \/ ValidateEnv
    \/ GetNewNotionItems
    \/ LoopItem
    \/ LoopEnd
    \/ SummarizeTask
    \/ UpdateNotionPage

Spec == Init /\ [][Next]_vars

\* Every step of the process is taken once it is enabled: the script is
\* single-threaded and each call blocks until its reply or failure is known.
FairSpec == Spec /\ WF_vars(Next)

(***************************************************************************)
(* Vocabulary of the properties                                            *)
(***************************************************************************)
Terminated == pc \in {"done", "error", "config_error"}

\* The query succeeded and main holds its results.
Fetched == idx >= 1

Positions == [i \in 1..Len(items) |-> i]

\* Indexes in calls of the calls of kind op made for the record at position i.
CallsAt(op, i) == { k \in 1..Len(calls) : calls[k].op = op /\ calls[k].at = i }

\* The positions the calls of kind op were made for, in call order.
AtOf(op) ==
    LET cs == SelectSeq(calls, LAMBDA c : c.op = op)
    IN  [k \in 1..Len(cs) |-> cs[k].at]

\* The rich-text sequence of a property: empty when the property, its key or
\* the sequence is missing or of another type.
RichText(props, name, key) ==
    IF name \notin DOMAIN props.d THEN <<>>
    ELSE LET p == props.d[name]
         IN  IF p.tag # "dict" THEN <<>>
             ELSE IF key \notin DOMAIN p.d THEN <<>>
             ELSE IF p.d[key].tag # "list" THEN <<>>
             ELSE p.d[key].l

WellShaped(frag) ==
    /\ frag.tag = "dict"
    /\ "text" \in DOMAIN frag.d
    /\ frag.d["text"].tag = "dict"
    /\ "content" \in DOMAIN frag.d["text"].d
    /\ frag.d["text"].d["content"].tag = "str"

\* The plain text of a property as the extraction rule defines it: the content
\* of the first fragment of a non-empty sequence, else the empty string.
PlainText(props, name, key) ==
    LET rt == RichText(props, name, key)
    IN  IF Len(rt) > 0 /\ WellShaped(rt[1])
        THEN rt[1].d["text"].d["content"].s
        ELSE <<>>

RecordTitle(i) == PlainText(items[i].properties, "Doc name", "title")

RecordDescription(i) ==
    PlainText(items[i].properties, "Notes / Background", "rich_text")

\* The positions of the records with a non-empty title, in fetched order.
TitledPositions == SelectSeq(Positions, LAMBDA i : RecordTitle(i) # <<>>)

\* The title property is missing, or its rich-text sequence is missing or empty.
NoTitleSequence(i) ==
    LET props == items[i].properties.d
    IN  \/ "Doc name" \notin DOMAIN props
        \/ /\ props["Doc name"].tag = "dict"
           /\ \/ "title" \notin DOMAIN props["Doc name"].d
              \/ props["Doc name"].d["title"] = EmptyList

NoDescriptionProperty(i) ==
    "Notes / Background" \notin DOMAIN items[i].properties.d

\* sub occurs in s as a contiguous run of characters.
Contains(s, sub) ==
    \E o \in 0..(Len(s) - Len(sub)) : SubSeq(s, o + 1, o + Len(sub)) = sub

\* out is raw without its leading and trailing whitespace, and nothing else
\* removed or changed.
IsTrimOf(out, raw) ==
    \E a \in 0..Len(raw), b \in 0..Len(raw) :
        /\ a + b <= Len(raw)
        /\ out = SubSeq(raw, a + 1, Len(raw) - b)
        /\ \A k \in 1..a : raw[k] \in Whitespace
        /\ \A k \in (Len(raw) - b + 1)..Len(raw) : raw[k] \in Whitespace
        /\ out # <<>> => (out[1] \notin Whitespace /\ out[Len(out)] \notin Whitespace)

\* The run stopped inside the field extraction of the record at position i:
\* the loop body ran for i, raised, and made no call for it.
AbortedInExtraction(i) ==
    /\ pc = "error"
    /\ idx = i
    /\ CallsAt("summarize", i) = {}

(***************************************************************************)
(* Properties                                                              *)
(***************************************************************************)
\* C1: when the fetch succeeded and no Summarizer or Updater call failed, a
\* finished run has made exactly one Summarizer call and one Updater call
\* for each record with a non-empty title, in fetched order, each record's
\* Summarizer call directly followed by its Updater call.
C1_ExactlyMCallsInOrder ==
    (Terminated /\ Fetched /\ \A k \in 1..Len(calls) : calls[k].ok) =>
        /\ AtOf("summarize") = TitledPositions
        /\ AtOf("update") = TitledPositions
        /\ \A k \in 2..Len(calls) :
              IF k % 2 = 0
              THEN calls[k].op = "summarize"
              ELSE calls[k].op = "update" /\ calls[k].at = calls[k - 1].at

\* C2: with any of the three configuration values unset or empty, the process
\* gets no further than the configuration error and makes no network call.
C2_ConfigErrorNoNetwork ==
    (\E v \in {NOTION_TOKEN, OPENAI_API_KEY, NOTION_DATABASE_ID} :
        v \in {PyNone, PyStr(<<>>)}) =>
        /\ calls = <<>>
        /\ pc = "start" \/ (pc = "config_error" /\ exc = "EnvironmentError")

\* The process stopped in the configuration error because the database
\* identifier alone is empty.
C2_Witness ==
    /\ pc = "config_error"
    /\ NOTION_TOKEN = PyStr(<<"k">>)
    /\ OPENAI_API_KEY = PyStr(<<"k">>)
    /\ NOTION_DATABASE_ID = PyStr(<<>>)

\* C3: the field extraction never fails: the run is never stopped inside the
\* extraction of a record, and the fields it yields are the plain text of the
\* record's title and description, empty on any shape mismatch.
C3_ExtractorNeverFails ==
    \A k \in 1..Len(visited) :
        LET i == visited[k]
        IN  /\ ~AbortedInExtraction(i)
            /\ (idx = i /\ pc \in {"summarize", "update"}) =>
                  (title = RecordTitle(i) /\ description = RecordDescription(i))

\* C4: a visited record whose title property or title rich-text sequence is
\* missing or empty gets no Summarizer and no Updater call, and the loop has
\* moved on past it.
C4_UntitledSkippedAndContinued ==
    \A k \in 1..Len(visited) :
        LET i == visited[k]
        IN  NoTitleSequence(i) =>
              /\ CallsAt("summarize", i) = {}
              /\ CallsAt("update", i) = {}
              /\ idx > i

\* C5: after a query call with a non-success status the run is in the error
\* state and the query is the only call made.
C5_FetchFailureStopsRun ==
    (Len(calls) >= 1 /\ calls[1].op = "query" /\ ~calls[1].ok) =>
        /\ pc = "error"
        /\ exc = "HTTPError"
        /\ Len(calls) = 1

\* The query returned a non-success status.
C5_Witness ==
    /\ Len(calls) = 1
    /\ calls[1].op = "query"
    /\ ~calls[1].ok
    /\ pc = "error"

\* C6: every Updater call is directly preceded by a successful Summarizer call
\* for the same record, and a record whose Summarizer call failed gets no
\* Updater call.
C6_UpdateOnlyAfterSummary ==
    \A k \in 1..Len(calls) :
        /\ calls[k].op = "update" =>
              /\ k > 1
              /\ calls[k - 1].op = "summarize"
              /\ calls[k - 1].ok
              /\ calls[k - 1].at = calls[k].at
        /\ (calls[k].op = "summarize" /\ ~calls[k].ok) =>
              CallsAt("update", calls[k].at) = {}

\* The Summarizer call of the second record failed after the first record
\* was summarized and updated.
C6_Witness ==
    /\ Terminated
    /\ CallsAt("update", 1) # {}
    /\ \E k \in CallsAt("summarize", 2) : ~calls[k].ok

\* C7: a failed Summarizer or Updater call is the last call of the run (no
\* retry, no call for a later record), the run is in the error state, and
\* every update written before it is still in the database.
C7_HaltOnFirstFailure ==
    \A k \in 1..Len(calls) :
        (calls[k].op \in {"summarize", "update"} /\ ~calls[k].ok) =>
            /\ k = Len(calls)
            /\ pc = "error"
            /\ \A j \in 1..(k - 1) :
                  (calls[j].op = "update" /\ calls[j].ok) =>
                      pages[calls[j].target] =
                          [set |-> TRUE, content |-> SummaryContent(calls[j].data)]

\* The Updater call of the second record failed after the first record's
\* update was written.
C7_Witness ==
    /\ pc = "error"
    /\ \E j \in CallsAt("update", 1) : calls[j].ok
    /\ \E k \in CallsAt("update", 2) : ~calls[k].ok
    /\ pages["p1"].set
    /\ ~pages["p2"].set

\* C8: every Summarizer prompt contains the record's title and description
\* verbatim, and every Updater call directly follows the Summarizer call of
\* the same record, targets that record's identifier and carries as Summary
\* content the completion's text without its surrounding whitespace.
C8_RoundTrip ==
    \A k \in 1..Len(calls) :
        /\ calls[k].op = "summarize" =>
              /\ RecordTitle(calls[k].at) # <<>>
              /\ Contains(calls[k].prompt, RecordTitle(calls[k].at))
              /\ Contains(calls[k].prompt, RecordDescription(calls[k].at))
        /\ calls[k].op = "update" =>
              /\ k > 1
              /\ calls[k - 1].op = "summarize"
              /\ calls[k - 1].at = calls[k].at
              /\ calls[k].target = items[calls[k].at].id
              /\ IsTrimOf(SummaryContent(calls[k].data), calls[k - 1].reply)

\* The second record, with a title and a description, was updated with a
\* completion that came wrapped in whitespace.
C8_Witness ==
    \E k \in CallsAt("update", 2) :
        /\ calls[k].ok
        /\ RecordDescription(2) # <<>>
        /\ calls[k - 1].reply # SummaryContent(calls[k].data)
        /\ pages["p2"].content = <<"d", "o", " ", "i", "t">>

\* C9: a visited record with a non-empty title and no description property
\* is handed to the Summarizer with an empty description.
C9_EmptyDescriptionStillSummarized ==
    \A k \in 1..Len(visited) :
        LET i == visited[k]
        IN  (RecordTitle(i) # <<>> /\ NoDescriptionProperty(i)) =>
              \/ pc = "summarize" /\ idx = i /\ description = <<>>
              \/ \E c \in CallsAt("summarize", i) :
                    /\ calls[c].title = RecordTitle(i)
                    /\ calls[c].description = <<>>

\* A record without a description property was summarized.
C9_Witness ==
    \E i \in 1..Len(items) :
        /\ NoDescriptionProperty(i)
        /\ \E c \in CallsAt("summarize", i) : calls[c].description = <<>>

\* On normal completion every fetched record was visited exactly once, in
\* order, and was either skipped for its empty title or summarized and then
\* updated, both successfully.
DoneAfterEveryRecord ==
    pc = "done" =>
        /\ visited = Positions
        /\ \A i \in 1..Len(items) :
              \/ /\ RecordTitle(i) = <<>>
                 /\ CallsAt("summarize", i) = {}
                 /\ CallsAt("update", i) = {}
              \/ \E k \in 1..(Len(calls) - 1) :
                    /\ CallsAt("summarize", i) = {k}
                    /\ CallsAt("update", i) = {k + 1}
                    /\ calls[k].ok
                    /\ calls[k + 1].ok

\* C10: every run eventually terminates, normally or in an error state, and
\* normal completion comes only after every fetched record was visited once.
C10_TerminatesAfterEveryRecord == <>Terminated /\ []DoneAfterEveryRecord

\* A run completed normally over two records, one skipped and one updated.
C10_Witness ==
    /\ pc = "done"
    /\ Len(items) = 2
    /\ CallsAt("summarize", 1) = {}
    /\ CallsAt("update", 2) # {}

====
